---------------------------- MODULE Spec2Model ----------------------------
(***************************************************************************)
(* Model of the two state machines of the podcast client:                  *)
(*                                                                         *)
(*  - the "My Pods" page (client/src/app/mypods/page.tsx): the job list    *)
(*    (podcasts), the set of polled job ids (pollingIds), the transient    *)
(*    completion markers (justCompletedIds), the 5 s poll timer and the    *)
(*    10 s marker timeouts;                                                *)
(*  - the audio player provider (contexts/AudioPlayerContext): the single  *)
(*    Audio element, the React session state mirrored from its events and  *)
(*    the transport commands playPodcast / togglePlayPause / seek /        *)
(*    setVolume.                                                           *)
(*                                                                         *)
(* React semantics that the model keeps: a function defined in a component *)
(* body reads the state of the render that created it (its closure);       *)
(* functional updaters (setX(prev => ...)) read the current state.         *)
(***************************************************************************)
EXTENDS Integers, Sequences, FiniteSets, TLC

VARIABLES
    \* ---- My Pods page -------------------------------------------------
    mounted,            \* the page component is mounted (interval armed)
    token,              \* localStorage 'token' is present
    loadState,          \* fetchMyPodcasts: "pending" | "done" | "failed" | "redirected"
    podcasts,           \* useState<Podcast[]>: sequence of job records
    pollingIds,         \* useState<Set<string>>: insertion-ordered, no duplicates
    justCompletedIds,   \* useState<Set<string>>
    pageError,          \* useState('') error text
    untilTick,          \* time left until the interval fires
    calls,              \* running invocations of checkProcessingPodcasts
    timers,             \* pending marker timeouts: <<[id, left]>>
    deleting,           \* ids with a DELETE request in flight
    srv,                \* the backend's job table
    markerAge,          \* age of the id's marker, now or when it was removed
    \* ---- audio player provider ------------------------------------------
    providerUp,         \* the provider is mounted
    currentPodcast,     \* useState<Podcast|null>: track id, 0 for null
    isPlaying,          \* useState(false)
    currentTime,        \* useState(0)
    duration,           \* useState(0)
    volume,             \* useState(65)
    audio,              \* the Audio element behind audioRef
    playTimers,         \* pending 100 ms deferred-play timeouts
    events,             \* media events queued on the element, not yet handled
    lastCmd             \* the provider operation called last: [op, arg]

pageVars == <<mounted, token, loadState, podcasts, pollingIds, justCompletedIds,
              pageError, untilTick, calls, timers, deleting, srv, markerAge>>

playerVars == <<providerUp, currentPodcast, isPlaying, currentTime, duration,
                volume, audio, playTimers, events, lastCmd>>

vars == <<pageVars, playerVars>>

-----------------------------------------------------------------------------
(* Bounds of the model *)

NumJobs == 2
MaxCalls == 2
NumTracks == 2
MaxEvents == 2
MaxPlayTimers == 2

(* Program constants, in seconds *)
PollInterval == 5
MarkerExpiry == 10

JobIds == 1..NumJobs

Range(s) == {s[i] : i \in 1..Len(s)}

Min2(a, b) == IF a < b THEN a ELSE b
Max2(a, b) == IF a > b THEN a ELSE b

-----------------------------------------------------------------------------
(* The backend (generation service and status endpoint) *)

NoJob == [status |-> "deleted", progress |-> 0]

ServerSteps(j) ==
    CASE j.status = "draft" -> {[status |-> "generating", progress |-> 40]}
      [] j.status = "generating" ->
            {[status |-> "completed", progress |-> 100],
             [status |-> "failed", progress |-> j.progress]}
      [] OTHER -> {}

AudioUrlOf(id, j) == IF j.status = "completed" THEN <<"/media", id>> ELSE <<>>
ErrorOf(j) == IF j.status = "failed" THEN "generation failed" ELSE ""
StageOf(j) ==
    CASE j.status = "draft" -> "queued"
      [] j.status = "generating" -> "script"
      [] j.status = "completed" -> "done"
      [] OTHER -> "error"

\* GET /podcasts/{id}/status
StatusData(id) ==
    [status |-> srv[id].status, progress |-> srv[id].progress,
     stage |-> StageOf(srv[id]), audio_url |-> AudioUrlOf(id, srv[id]),
     error_message |-> ErrorOf(srv[id])]

\* one item of GET /podcasts/my-podcasts
ListItem(id) ==
    [id |-> id, topic |-> <<"topic", id>>, is_public |-> FALSE,
     status |-> srv[id].status, progress |-> srv[id].progress,
     stage |-> StageOf(srv[id]), audio_url |-> AudioUrlOf(id, srv[id]),
     error_message |-> ErrorOf(srv[id])]

RECURSIVE ListFrom(_)
ListFrom(id) ==
    IF id > NumJobs THEN <<>>
    ELSE (IF srv[id] = NoJob THEN <<>> ELSE <<ListItem(id)>>) \o ListFrom(id + 1)

MyPodcastsData == ListFrom(1)

ServerAdvance ==
    /\ \E id \in JobIds : \E n \in ServerSteps(srv[id]) :
          srv' = [srv EXCEPT ![id] = n]
    /\ UNCHANGED <<mounted, token, loadState, podcasts, pollingIds,
                   justCompletedIds, pageError, untilTick, calls, timers,
                   deleting, markerAge>>
    /\ UNCHANGED playerVars

-----------------------------------------------------------------------------
(* My Pods page: state helpers *)

Active == {"draft", "generating"}
Terminal == {"completed", "failed"}

\* a render of the component: the state values its closures read
MountRender == [pollingIds |-> <<>>, podcasts |-> <<>>]
CurrentRender == [pollingIds |-> pollingIds, podcasts |-> podcasts]

IsProcessing(p) == p.status = "draft" \/ p.status = "generating"
IdOf(p) == p.id

RECURSIVE MapIds(_)
MapIds(list) ==
    IF list = <<>> THEN <<>> ELSE <<IdOf(Head(list))>> \o MapIds(Tail(list))

\* new Set(prev); newSet.delete(id)
SetDelete(s, id) == SelectSeq(s, LAMBDA x : x # id)

\* podcasts.find(p => p.id === id)?.status === 'generating'
WasGenerating(list, id) ==
    LET hits == SelectSeq(list, LAMBDA p : p.id = id)
    IN  hits # <<>> /\ Head(hits).status = "generating"

\* { ...p, status, audio_url, error_message, progress, stage }
Merge(p, d) ==
    [p EXCEPT !.status = d.status, !.audio_url = d.audio_url,
              !.error_message = d.error_message, !.progress = d.progress,
              !.stage = d.stage]

\* a map that merges the reply into every entry, whatever its id
MapStatusAll(list, id, d) ==
    [i \in 1..Len(list) |-> Merge(list[i], d)]

\* prev.map(p => p.id === id ? {...} : p)
MapStatus(list, id, d) ==
    [i \in 1..Len(list) |-> IF list[i].id = id THEN Merge(list[i], d) ELSE list[i]]

\* a timeout armed for longer than the marker's 10 s
NewTimerLate(id) == [id |-> id, left |-> MarkerExpiry + PollInterval]

NewTimer(id) == [id |-> id, left |-> MarkerExpiry]

\* should this reply raise the "just completed" marker
MarksCompleted(closurePodcasts, id, d) ==
    /\ d.status = "completed" \/ d.status = "failed"
    /\ WasGenerating(closurePodcasts, id)
    /\ d.status = "completed"

StopsPolling(d) == d.status = "completed" \/ d.status = "failed"

\* the body of the response.ok branch applied to the page state s
Reconcile(s, closurePodcasts, id, d) ==
    [podcasts |-> MapStatus(s.podcasts, id, d),
     pollingIds |-> IF StopsPolling(d) THEN SetDelete(s.pollingIds, id)
                    ELSE s.pollingIds,
     justCompletedIds |-> IF MarksCompleted(closurePodcasts, id, d)
                          THEN s.justCompletedIds \cup {id}
                          ELSE s.justCompletedIds,
     timers |-> IF MarksCompleted(closurePodcasts, id, d)
                THEN Append(s.timers, NewTimer(id))
                ELSE s.timers]

PageState == [podcasts |-> podcasts, pollingIds |-> pollingIds,
              justCompletedIds |-> justCompletedIds, timers |-> timers]

NoData == [status |-> "", progress |-> 0, stage |-> "", audio_url |-> <<>>,
           error_message |-> ""]
Pending == [kind |-> "pending", data |-> NoData]
OkResponse(d) == [kind |-> "ok", data |-> d]

NewCall(r) == [pollingIds |-> r.pollingIds, podcasts |-> r.podcasts,
               idx |-> 1, resp |-> Pending, failed |-> {}]

CallId(c) == c.pollingIds[c.idx]

RemoveAt(s, i) == SubSeq(s, 1, i - 1) \o SubSeq(s, i + 1, Len(s))

\* the for-loop moves on: next fetch, or the invocation returns
Continue(cs, i) ==
    IF cs[i].idx < Len(cs[i].pollingIds)
    THEN [cs EXCEPT ![i].idx = @ + 1, ![i].resp = Pending]
    ELSE RemoveAt(cs, i)

\* a catch around the whole loop: a failed query would end the invocation
AfterFailureAbort(cs, i) == RemoveAt(cs, i)

\* the catch block sits inside the for loop: after a failed query the
\* loop goes on with the next id
AfterFailure(cs, i) == Continue(cs, i)

-----------------------------------------------------------------------------
(* My Pods page: operations *)

\* fetchMyPodcasts, from the await of the list request on
FetchMyPodcastsReply ==
    /\ loadState = "pending"
    /\ \E outcome \in {"ok", "401", "500", "throw"} :
        /\ loadState' = CASE outcome = "ok" -> "done"
                          [] outcome = "401" -> "redirected"
                          [] OTHER -> "failed"
        /\ IF mounted /\ outcome = "ok"
           THEN /\ podcasts' = MyPodcastsData
                /\ pollingIds' = MapIds(SelectSeq(MyPodcastsData, IsProcessing))
           ELSE UNCHANGED <<podcasts, pollingIds>>
        /\ pageError' = IF ~mounted THEN pageError
                        ELSE CASE outcome = "500" -> "Failed to load podcasts"
                               [] outcome = "throw" ->
                                    "An error occurred while loading podcasts"
                               [] OTHER -> pageError
    /\ UNCHANGED <<mounted, token, justCompletedIds, untilTick, calls, timers,
                   deleting, srv, markerAge>>
    /\ UNCHANGED playerVars

\* checkProcessingPodcasts without the credential test of line 91
CheckProcessingPodcastsNoToken(r) ==
    IF Len(r.pollingIds) = 0
    THEN calls' = calls
    ELSE /\ Len(calls) < MaxCalls
         /\ calls' = Append(calls, NewCall(r))

\* checkProcessingPodcasts as defined by render r, up to its first await
CheckProcessingPodcasts(r) ==
    IF ~token \/ Len(r.pollingIds) = 0
    THEN calls' = calls
    ELSE /\ Len(calls) < MaxCalls
         /\ calls' = Append(calls, NewCall(r))

\* the setInterval callback of the mount effect: it calls the
\* checkProcessingPodcasts of the render in which the effect ran
IntervalTick(r) ==
    /\ mounted
    /\ untilTick = 0
    /\ untilTick' = PollInterval
    /\ CheckProcessingPodcasts(r)
    /\ UNCHANGED <<mounted, token, loadState, podcasts, pollingIds,
                   justCompletedIds, pageError, timers, deleting, srv,
                   markerAge>>
    /\ UNCHANGED playerVars

TimerTick == IntervalTick(MountRender)

RenderTick == IntervalTick(CurrentRender)

\* the status endpoint answers the query of invocation i
StatusRespond ==
    \E i \in 1..Len(calls) :
        /\ calls[i].resp.kind = "pending"
        /\ srv[CallId(calls[i])] # NoJob
        /\ calls' = [calls EXCEPT ![i].resp = OkResponse(StatusData(CallId(calls[i])))]
        /\ UNCHANGED <<mounted, token, loadState, podcasts, pollingIds,
                       justCompletedIds, pageError, untilTick, timers, deleting,
                       srv, markerAge>>
        /\ UNCHANGED playerVars

\* response.ok: lines 105-150, then the loop continues
StatusOkAt(i) ==
        /\ calls[i].resp.kind = "ok"
        /\ LET id == CallId(calls[i])
               d == calls[i].resp.data
               n == Reconcile(PageState, calls[i].podcasts, id, d)
               marks == MarksCompleted(calls[i].podcasts, id, d)
           IN  /\ IF mounted
                  THEN /\ podcasts' = n.podcasts
                       /\ pollingIds' = n.pollingIds
                       /\ justCompletedIds' = n.justCompletedIds
                       /\ markerAge' = IF marks THEN [markerAge EXCEPT ![id] = 0]
                                       ELSE markerAge
                  ELSE UNCHANGED <<podcasts, pollingIds, justCompletedIds, markerAge>>
               /\ timers' = n.timers
        /\ calls' = Continue(calls, i)
        /\ UNCHANGED <<mounted, token, loadState, pageError, untilTick, deleting, srv>>
        /\ UNCHANGED playerVars

StatusOk == \E i \in 1..Len(calls) : StatusOkAt(i)

FailureKinds(id) == {"throw", "401", "500"} \cup (IF srv[id] = NoJob THEN {"404"} ELSE {})

\* invocation i notes that the query of its current id failed
Failed(i) == [calls EXCEPT ![i].failed = @ \cup {CallId(calls[i])}]

\* the fetch rejects (catch, line 151) or answers non-OK (no branch taken)
StatusFailureAt(i) ==
        /\ calls[i].resp.kind = "pending"
        /\ FailureKinds(CallId(calls[i])) # {}
        /\ calls' = AfterFailure(Failed(i), i)
        /\ UNCHANGED <<mounted, token, loadState, podcasts, pollingIds,
                       justCompletedIds, pageError, untilTick, timers, deleting,
                       srv, markerAge>>
        /\ UNCHANGED playerVars

StatusFailure == \E i \in 1..Len(calls) : StatusFailureAt(i)

\* the query of invocation i fails in the given way: the code takes the same
\* path for every kind (response.ok is false, or the catch logs)
StatusAnswered(i, kind) ==
    /\ kind \in FailureKinds(CallId(calls[i]))
    /\ StatusFailureAt(i)

\* the setTimeout callback of line 135
MarkerTimeout ==
    /\ timers # <<>>
    /\ Head(timers).left = 0
    /\ timers' = Tail(timers)
    /\ IF mounted
       THEN justCompletedIds' = justCompletedIds \ {Head(timers).id}
       ELSE UNCHANGED justCompletedIds
    /\ UNCHANGED markerAge
    /\ UNCHANGED <<mounted, token, loadState, podcasts, pollingIds, pageError,
                   untilTick, calls, deleting, srv>>
    /\ UNCHANGED playerVars

\* time until the next timer of the page is due
NextDue ==
    LET t == IF timers = <<>> THEN PollInterval ELSE Head(timers).left
    IN  IF mounted THEN Min2(untilTick, t) ELSE t

\* time passes up to the next due timer; a due timer fires before time
\* moves on (timers holds the timeouts in the order they were armed, so
\* the earliest is its head)
Advance ==
    /\ mounted \/ timers # <<>>
    /\ NextDue > 0
    /\ untilTick' = IF mounted THEN untilTick - NextDue ELSE untilTick
    /\ timers' = [k \in 1..Len(timers) |-> [timers[k] EXCEPT !.left = @ - NextDue]]
    /\ markerAge' = [id \in JobIds |->
                        IF id \in justCompletedIds
                        THEN Min2(markerAge[id] + NextDue, MarkerExpiry + 1)
                        ELSE markerAge[id]]
    /\ UNCHANGED <<mounted, token, loadState, podcasts, pollingIds,
                   justCompletedIds, pageError, calls, deleting, srv>>
    /\ UNCHANGED playerVars

\* handleDelete up to its await: the user confirmed
HandleDelete ==
    /\ mounted
    /\ \E id \in Range(MapIds(podcasts)) \ deleting :
          deleting' = IF token THEN deleting \cup {id} ELSE deleting
    /\ UNCHANGED <<mounted, token, loadState, podcasts, pollingIds,
                   justCompletedIds, pageError, untilTick, calls, timers, srv,
                   markerAge>>
    /\ UNCHANGED playerVars

\* handleDelete after the await: response.ok filters the list
HandleDeleteReply ==
    /\ \E id \in deleting : \E ok \in BOOLEAN :
        /\ deleting' = deleting \ {id}
        /\ srv' = IF ok THEN [srv EXCEPT ![id] = NoJob] ELSE srv
        /\ podcasts' = IF ok /\ mounted
                       THEN SelectSeq(podcasts, LAMBDA p : p.id # id)
                       ELSE podcasts
    /\ UNCHANGED <<mounted, token, loadState, pollingIds, justCompletedIds,
                   pageError, untilTick, calls, timers, markerAge>>
    /\ UNCHANGED playerVars

\* the cleanup of the mount effect: clearInterval. React drops the state of
\* the unmounted component, and later calls of its setters do nothing;
\* requests in flight and armed timeouts are not cancelled.
Unmount ==
    /\ mounted
    /\ mounted' = FALSE
    /\ untilTick' = PollInterval
    /\ podcasts' = <<>>
    /\ pollingIds' = <<>>
    /\ justCompletedIds' = {}
    /\ pageError' = ""
    /\ markerAge' = [id \in JobIds |-> 0]
    /\ UNCHANGED <<token, loadState, calls, timers, deleting, srv>>
    /\ UNCHANGED playerVars

\* the stored credential goes away (sign-out)
TokenRemoved ==
    /\ token
    /\ token' = FALSE
    /\ UNCHANGED <<mounted, loadState, podcasts, pollingIds, justCompletedIds,
                   pageError, untilTick, calls, timers, deleting, srv, markerAge>>
    /\ UNCHANGED playerVars

PageInit ==
    /\ mounted = TRUE
    /\ token \in BOOLEAN
    /\ loadState = IF token THEN "pending" ELSE "redirected"
    /\ podcasts = <<>>
    /\ pollingIds = <<>>
    /\ justCompletedIds = {}
    /\ pageError = ""
    /\ untilTick = PollInterval
    /\ calls = <<>>
    /\ timers = <<>>
    /\ deleting = {}
    /\ srv = [id \in JobIds |-> [status |-> "draft", progress |-> 0]]
    /\ markerAge = [id \in JobIds |-> 0]

-----------------------------------------------------------------------------
(* Audio player provider: the tracks and the Audio element *)

DefaultVolume == 65

\* audio.duration of an element that has no metadata
NaN == 0 - 1

\* the podcasts a caller can hand to playPodcast: ids 1..NumTracks carry an
\* audio_url (absolute for odd ids, server-relative for even ids), id
\* NumTracks + 1 carries none
PodcastIds == 1..(NumTracks + 1)

AudioUrl(id) ==
    IF id > NumTracks THEN <<>>
    ELSE IF id % 2 = 1 THEN <<"http", "://cdn.example", <<"/t", id>>>>
    ELSE <<"/media", <<"/t", id>>>>

\* length in seconds of the media behind a source
MediaLength(src) == IF src = <<>> THEN 0 ELSE src[Len(src)][2] + 1

StartsWithHttp(url) == url # <<>> /\ Head(url) = "http"

\* podcast.audio_url.startsWith('http') ? url : `http://localhost:8000${url}`
ResolveUrl(url) ==
    IF StartsWithHttp(url) THEN url ELSE <<"http", "://localhost:8000">> \o url

\* lastCmd: the provider operation called last, with its argument
NoCmd == [op |-> "none", arg |-> 0]

\* audio.pause(): a playing element becomes paused and queues 'pause'
ElementPause(a, ev) ==
    IF a.paused THEN [audio |-> a, events |-> ev]
    ELSE [audio |-> [a EXCEPT !.paused = TRUE], events |-> Append(ev, "pause")]

\* audio.src = url: the element starts loading the new source from 0
ElementSetSrc(a, ev, url) ==
    [audio |-> [a EXCEPT !.src = url, !.paused = TRUE, !.currentTime = 0,
                         !.duration = NaN,
                         !.ready = IF url = <<>> THEN "error" ELSE "loading"],
     events |-> ev]

\* can the element take a play() call: it has a source it did not fail on
Playable(a) == a.src # <<>> /\ a.ready # "error"

\* audio.play() accepted: a paused element starts and queues 'play'
ElementPlay(a, ev) ==
    IF a.paused
    THEN [audio |-> [a EXCEPT !.paused = FALSE,
                              !.currentTime = IF a.ready = "ready"
                                                 /\ a.currentTime >= a.duration
                                              THEN 0 ELSE a.currentTime],
          events |-> Append(ev, "play")]
    ELSE [audio |-> a, events |-> ev]

Clamp(lo, hi, x) == Max2(lo, Min2(hi, x))

\* audio.currentTime = t: an element with metadata seeks inside its media;
\* one without keeps t as its start position
ElementSeek(a, t) ==
    [a EXCEPT !.currentTime = IF a.ready = "ready" THEN Clamp(0, a.duration, t)
                              ELSE t]

PlayerIdle ==
    /\ providerUp = TRUE
    /\ currentPodcast = 0
    /\ isPlaying = FALSE
    /\ currentTime = 0
    /\ duration = 0
    /\ volume = DefaultVolume
    /\ audio = [src |-> <<>>, paused |-> TRUE, currentTime |-> 0,
                duration |-> NaN, volume |-> DefaultVolume, ready |-> "empty"]
    /\ playTimers = 0
    /\ events = <<>>
    /\ lastCmd = NoCmd

Enqueue(ev, e) == IF ev # <<>> /\ ev[Len(ev)] = e THEN ev ELSE Append(ev, e)

\* a toggle that ignores isPlaying and always calls play()
ToggleElementPlay(accept) ==
    IF accept /\ Playable(audio) THEN ElementPlay(audio, events)
    ELSE [audio |-> audio, events |-> events]

\* a toggle with the branches exchanged: play() when isPlaying, else pause()
ToggleElementSwapped(accept) ==
    IF ~isPlaying THEN ElementPause(audio, events)
    ELSE IF accept /\ Playable(audio) THEN ElementPlay(audio, events)
    ELSE [audio |-> audio, events |-> events]

\* togglePlayPause: pause when isPlaying, else play(); a rejected play() is
\* caught and logged
ToggleElement(accept) ==
    IF isPlaying THEN ElementPause(audio, events)
    ELSE IF accept /\ Playable(audio) THEN ElementPlay(audio, events)
    ELSE [audio |-> audio, events |-> events]

TogglePlayPause ==
    /\ providerUp
    /\ Len(events) < MaxEvents
    /\ \E accept \in BOOLEAN :
          /\ audio' = ToggleElement(accept).audio
          /\ events' = ToggleElement(accept).events
    /\ lastCmd' = [op |-> "togglePlayPause", arg |-> 0]
    /\ UNCHANGED <<providerUp, currentPodcast, isPlaying, currentTime, duration,
                   volume, playTimers>>
    /\ UNCHANGED pageVars

\* a switch that pauses but leaves the previous source on the element
LoadElementKeep(id) == ElementPause(audio, events)

\* a switch that binds the source only on an element that has none
LoadElementFirst(id) ==
    IF audio.src = <<>>
    THEN ElementSetSrc(audio, events, ResolveUrl(AudioUrl(id)))
    ELSE ElementPause(audio, events)

\* playPodcast, "Load new podcast" branch: pause, bind the source, defer play
LoadElement(id) ==
    ElementSetSrc(ElementPause(audio, events).audio,
                  ElementPause(audio, events).events,
                  ResolveUrl(AudioUrl(id)))

\* a guard that lets every podcast through
HasAudioUrlAlways(id) == TRUE

\* podcast.audio_url is set (line 126)
HasAudioUrl(id) == AudioUrl(id) # <<>>

PlayPodcast(id) ==
    /\ providerUp
    /\ Len(events) < MaxEvents
    /\ IF ~HasAudioUrl(id)
       THEN /\ lastCmd' = [op |-> "playPodcast", arg |-> id]
            /\ UNCHANGED <<providerUp, currentPodcast, isPlaying, currentTime,
                           duration, volume, audio, playTimers, events>>
       ELSE IF currentPodcast = id
       THEN /\ \E accept \in BOOLEAN :
                  /\ audio' = ToggleElement(accept).audio
                  /\ events' = ToggleElement(accept).events
            /\ lastCmd' = [op |-> "playPodcast", arg |-> id]
            /\ UNCHANGED <<providerUp, currentPodcast, isPlaying, currentTime,
                           duration, volume, playTimers>>
       ELSE /\ playTimers < MaxPlayTimers
            /\ currentPodcast' = id
            /\ audio' = LoadElement(id).audio
            /\ events' = LoadElement(id).events
            /\ playTimers' = playTimers + 1
            /\ lastCmd' = [op |-> "playPodcast", arg |-> id]
            /\ UNCHANGED <<providerUp, isPlaying, currentTime, duration, volume>>
    /\ UNCHANGED pageVars

\* does the element take this play() call: a playable element that is
\* already playing keeps playing (the promise of such a call settles with
\* the element's next event); a paused one may refuse to start
PlayAccepted(a, accept) == Playable(a) /\ (accept \/ ~a.paused)

\* the setTimeout callback of playPodcast: play(), and on rejection
\* setIsPlaying(false)
DeferredPlay ==
    /\ playTimers > 0
    /\ Len(events) < MaxEvents
    /\ playTimers' = playTimers - 1
    /\ lastCmd' = [op |-> "play", arg |-> 0]
    /\ \E accept \in BOOLEAN :
          IF PlayAccepted(audio, accept)
          THEN /\ audio' = ElementPlay(audio, events).audio
               /\ events' = ElementPlay(audio, events).events
               /\ UNCHANGED isPlaying
          ELSE /\ isPlaying' = FALSE
               /\ UNCHANGED <<audio, events>>
    /\ UNCHANGED <<providerUp, currentPodcast, currentTime, duration, volume>>
    /\ UNCHANGED pageVars

SeekTimes == {0 - 1, 1, NumTracks + 2}

\* seek(time)
Seek(time) ==
    /\ providerUp
    /\ Len(events) < MaxEvents
    /\ audio' = ElementSeek(audio, time)
    /\ events' = IF audio.ready = "ready" THEN Enqueue(events, "timeupdate")
                 ELSE events
    /\ currentTime' = time
    /\ lastCmd' = [op |-> "seek", arg |-> time]
    /\ UNCHANGED <<providerUp, currentPodcast, isPlaying, duration, volume,
                   playTimers>>
    /\ UNCHANGED pageVars

\* MediaController: handlePrevious / handleNext call seek(0); a click on
\* the progress bar calls seek((newProgress / 100) * duration) with
\* newProgress clamped into 0..100
ProgressClicks == {0, 100}

\* (with duration NaN the product is NaN; that call is left out)
ControllerSeek ==
    /\ currentPodcast # 0
    /\ duration # NaN
    /\ \E pct \in ProgressClicks : Seek((pct * duration) \div 100)

VolumeInputs == {0 - 10, 30, 110}

\* a clamp that forgets the lower end
ClampVolumeUpper(v) == Min2(100, v)

\* Math.max(0, Math.min(100, newVolume))
ClampVolume(v) == Max2(0, Min2(100, v))

\* setVolume(newVolume)
SetVolume(v) ==
    /\ providerUp
    /\ volume' = ClampVolume(v)
    /\ audio' = [audio EXCEPT !.volume = ClampVolume(v)]
    /\ lastCmd' = [op |-> "setVolume", arg |-> v]
    /\ UNCHANGED <<providerUp, currentPodcast, isPlaying, currentTime, duration,
                   playTimers, events>>
    /\ UNCHANGED pageVars

\* listeners of which handlePause does not clear the flag
HandleEventNoPause(e) ==
    /\ isPlaying' = CASE e = "play" -> TRUE
                      [] e \in {"ended", "error"} -> FALSE
                      [] OTHER -> isPlaying
    /\ currentTime' = CASE e = "timeupdate" -> audio.currentTime
                        [] e = "ended" -> 0
                        [] OTHER -> currentTime
    /\ duration' = IF e = "durationchange" THEN audio.duration ELSE duration

\* the event listeners of the init effect
HandleEvent(e) ==
    /\ isPlaying' = CASE e = "play" -> TRUE
                      [] e \in {"pause", "ended", "error"} -> FALSE
                      [] OTHER -> isPlaying
    /\ currentTime' = CASE e = "timeupdate" -> audio.currentTime
                        [] e = "ended" -> 0
                        [] OTHER -> currentTime
    /\ duration' = IF e = "durationchange" THEN audio.duration ELSE duration

\* the element dispatches its oldest queued event
DispatchEvent ==
    /\ events # <<>>
    /\ events' = Tail(events)
    /\ IF providerUp THEN HandleEvent(Head(events))
       ELSE UNCHANGED <<isPlaying, currentTime, duration>>
    /\ UNCHANGED <<providerUp, currentPodcast, volume, audio, playTimers, lastCmd>>
    /\ UNCHANGED pageVars

\* the element gets the metadata of its source
MediaLoaded ==
    /\ audio.ready = "loading"
    /\ Len(events) < MaxEvents
    /\ audio' = [audio EXCEPT !.ready = "ready",
                              !.duration = MediaLength(audio.src),
                              !.currentTime = Clamp(0, MediaLength(audio.src), @)]
    /\ events' = Enqueue(events, "durationchange")
    /\ UNCHANGED <<providerUp, currentPodcast, isPlaying, currentTime, duration,
                   volume, playTimers, lastCmd>>
    /\ UNCHANGED pageVars

\* the element cannot load its source
MediaLoadError ==
    /\ audio.ready = "loading"
    /\ Len(events) < MaxEvents
    /\ audio' = [audio EXCEPT !.ready = "error"]
    /\ events' = Enqueue(events, "error")
    /\ UNCHANGED <<providerUp, currentPodcast, isPlaying, currentTime, duration,
                   volume, playTimers, lastCmd>>
    /\ UNCHANGED pageVars

\* playback moves on by a second; at the end of the media the element
\* pauses itself and queues 'pause' and 'ended'
MediaProgress ==
    /\ ~audio.paused
    /\ audio.ready = "ready"
    /\ IF audio.currentTime + 1 < audio.duration
       THEN /\ Len(events) < MaxEvents
            /\ audio' = [audio EXCEPT !.currentTime = @ + 1]
            /\ events' = Enqueue(events, "timeupdate")
       ELSE /\ Len(events) + 1 < MaxEvents
            /\ audio' = [audio EXCEPT !.currentTime = audio.duration,
                                      !.paused = TRUE]
            /\ events' = events \o <<"pause", "ended">>
    /\ UNCHANGED <<providerUp, currentPodcast, isPlaying, currentTime, duration,
                   volume, playTimers, lastCmd>>
    /\ UNCHANGED pageVars

\* the cleanup of the init effect: pause(), src = ''. React drops the state
\* of the unmounted provider; the listeners and a pending deferred play stay.
ProviderUnmount ==
    /\ providerUp
    /\ providerUp' = FALSE
    /\ audio' = ElementSetSrc(ElementPause(audio, events).audio,
                              ElementPause(audio, events).events, <<>>).audio
    /\ events' = ElementPause(audio, events).events
    /\ lastCmd' = [op |-> "cleanup", arg |-> 0]
    /\ currentPodcast' = 0
    /\ isPlaying' = FALSE
    /\ currentTime' = 0
    /\ duration' = 0
    /\ volume' = DefaultVolume
    /\ UNCHANGED playTimers
    /\ UNCHANGED pageVars

NextPlayer ==
    \/ \E id \in PodcastIds : PlayPodcast(id)
    \/ TogglePlayPause
    \/ DeferredPlay
    \/ \E t \in SeekTimes : Seek(t)
    \/ ControllerSeek
    \/ \E v \in VolumeInputs : SetVolume(v)
    \/ DispatchEvent
    \/ MediaLoaded
    \/ MediaLoadError
    \/ MediaProgress
    \/ ProviderUnmount

Init == PageInit /\ PlayerIdle

\* the page as mounted: the interval runs the mount render's function
Next ==
    \/ FetchMyPodcastsReply
    \/ TimerTick
    \/ Advance
    \/ ServerAdvance
    \/ HandleDelete
    \/ HandleDeleteReply
    \/ Unmount
    \/ TokenRemoved

Spec == Init /\ [][Next]_vars

\* checkProcessingPodcasts applied to the page's state: each tick runs the
\* function as the render in effect defines it, so its body (lines 89-155) is
\* entered with the ids and jobs the page holds. The interval of the mount
\* effect keeps the first render's function instead (TimerTick, under Spec);
\* this specification is the one that exercises the body of the function.
NextRender ==
    \/ FetchMyPodcastsReply
    \/ RenderTick
    \/ StatusRespond
    \/ StatusOk
    \/ StatusFailure
    \/ MarkerTimeout
    \/ Advance
    \/ ServerAdvance
    \/ Unmount
    \/ TokenRemoved

SpecRender == Init /\ [][NextRender]_vars

\* the same, with the user deleting jobs while they are polled
NextRenderDelete ==
    \/ FetchMyPodcastsReply
    \/ RenderTick
    \/ StatusRespond
    \/ StatusOk
    \/ StatusFailure
    \/ MarkerTimeout
    \/ Advance
    \/ ServerAdvance
    \/ HandleDelete
    \/ HandleDeleteReply

SpecRenderDelete == Init /\ [][NextRenderDelete]_vars

\* the audio player provider and the element it owns
SpecPlayer == Init /\ [][NextPlayer]_vars

-----------------------------------------------------------------------------
(* Properties of the My Pods page *)

\* the status of job id in a job list, "absent" when the list has no such job
StatusIn(list, id) ==
    LET hits == SelectSeq(list, LAMBDA p : p.id = id)
    IN  IF hits = <<>> THEN "absent" ELSE Head(hits).status

EntryIn(list, id) == Head(SelectSeq(list, LAMBDA p : p.id = id))

Rank(status) ==
    CASE status = "draft" -> 0
      [] status = "generating" -> 1
      [] OTHER -> 2

C4_TickPollsMembers ==
    [][(/\ mounted /\ mounted'
        /\ untilTick = 0 /\ untilTick' = PollInterval
        /\ loadState = "done" /\ token /\ pollingIds # <<>>)
       => /\ Len(calls') = Len(calls) + 1
          /\ calls'[Len(calls')].pollingIds = pollingIds
          /\ calls'[Len(calls')].idx = 1]_vars

C7_MarkerExpires ==
    \A id \in JobIds :
        /\ markerAge[id] <= MarkerExpiry
        /\ id \in justCompletedIds =>
              \E k \in 1..Len(timers) :
                  timers[k].id = id /\ timers[k].left <= MarkerExpiry - markerAge[id]

\* C7 witness: a marker was removed by its timeout 10 s after it was set.
C7_Witness ==
    \E id \in JobIds :
        /\ mounted
        /\ id \notin justCompletedIds
        /\ markerAge[id] = MarkerExpiry
        /\ StatusIn(podcasts, id) = "completed"

\* C8: seek(t) stores a position clamped into [0, duration]: after a seek
\* call the session's currentTime and the position handed to the element
\* (the argument of the call) lie between 0 and the session's duration.
C8_SeekClamps ==
    [][\A t \in SeekTimes :
          Seek(t) => /\ 0 <= currentTime' /\ currentTime' <= duration'
                     /\ 0 <= lastCmd'.arg /\ lastCmd'.arg <= duration']_vars

\* C9: after setVolume(v) the session volume is min(100, max(0, v)), so the
\* volume stays within 0..100, and the call changes neither the playing flag
\* nor the position nor the bound track, in the session or on the element.
C9_VolumeClamps ==
    /\ [](volume >= 0 /\ volume <= 100)
    /\ [][\A v \in VolumeInputs :
             SetVolume(v) =>
                /\ volume' = Min2(100, Max2(0, v))
                /\ audio'.volume = volume'
                /\ UNCHANGED <<isPlaying, currentTime, currentPodcast, duration>>
                /\ audio'.paused = audio.paused
                /\ audio'.currentTime = audio.currentTime
                /\ audio'.src = audio.src]_vars

\* C9 witness: setVolume(110) was called while a track was bound and playing
\* and left the volume at 100.
C9_Witness ==
    /\ lastCmd = [op |-> "setVolume", arg |-> 110]
    /\ volume = 100
    /\ isPlaying
    /\ currentPodcast # 0
    /\ ~audio.paused

HasStopEvent(ev) == \E k \in 1..Len(ev) : ev[k] \in {"pause", "ended", "error"}

\* C10: playPodcast(A) with nothing bound binds A (currentPodcast = A, the
\* element gets A's resolved url and one deferred play); the element's play
\* event makes the session playing; playPodcast(A) called again while playing
\* pauses the element, which leads to isPlaying = FALSE, and binds nothing
\* (source, load state, currentPodcast and deferred plays unchanged).
C10_PlayThenToggle ==
    [][\A id \in 1..NumTracks :
          /\ (PlayPodcast(id) /\ currentPodcast = 0) =>
                /\ currentPodcast' = id
                /\ audio'.src = ResolveUrl(AudioUrl(id))
                /\ audio'.ready = "loading"
                /\ playTimers' = playTimers + 1
          /\ (DispatchEvent /\ providerUp /\ Head(events) = "play") => isPlaying'
          /\ (PlayPodcast(id) /\ currentPodcast = id /\ isPlaying) =>
                /\ audio'.paused
                /\ HasStopEvent(events')
                /\ audio'.src = audio.src
                /\ audio'.ready = audio.ready
                /\ currentPodcast' = id
                /\ playTimers' = playTimers]_vars

\* C10 witness: track 2 was bound from idle, played, and a second
\* playPodcast(2) has paused the element; its pause event is still queued.
C10_Witness ==
    /\ lastCmd = [op |-> "playPodcast", arg |-> 2]
    /\ currentPodcast = 2
    /\ isPlaying
    /\ audio.paused
    /\ events = <<"pause">>
    /\ audio.src = ResolveUrl(AudioUrl(2))
    /\ audio.ready = "ready"
    /\ playTimers = 0

-----------------------------------------------------------------------------
(* Properties of the polling session: failures, overlap, teardown, delete *)

C15_OptimisticDelete ==
    [][\A id \in JobIds :
          /\ (mounted /\ id \in deleting' /\ id \notin deleting) =>
                /\ StatusIn(podcasts', id) = "absent"
                /\ id \notin Range(pollingIds')
          /\ (mounted /\ id \in deleting /\ id \notin deleting'
                /\ srv'[id] = NoJob) =>
                /\ StatusIn(podcasts', id) = "absent"
                /\ id \notin Range(pollingIds')]_vars

-----------------------------------------------------------------------------
(* Properties of the audio player provider *)

PlayEvents == {"play", "pause", "ended", "error"}

\* what the newest play/pause/ended/error event of a queue reports, or the
\* given flag when the queue holds none
RECURSIVE Reported(_, _)
Reported(ev, flag) ==
    IF ev = <<>> THEN flag
    ELSE IF ev[Len(ev)] \in PlayEvents THEN ev[Len(ev)] = "play"
    ELSE Reported(SubSeq(ev, 1, Len(ev) - 1), flag)

\* C17: isPlaying follows the element's play / pause / ended / error
\* events and never a command: handling such an event sets the flag to what
\* the event reports; playPodcast and togglePlayPause leave the flag alone;
\* the flag becomes TRUE only by handling a 'play' event; and when it
\* changes outside an event handler (the catch of the deferred play) it
\* becomes FALSE while the newest event fired by the element reports that
\* the element is not playing.
C17_FlagMirrorsEvents ==
    [][/\ (DispatchEvent /\ providerUp /\ Head(events) \in PlayEvents)
             => (isPlaying' = (Head(events) = "play"))
       /\ ((\E id \in PodcastIds : PlayPodcast(id)) \/ TogglePlayPause)
             => (isPlaying' = isPlaying)
       /\ (~isPlaying /\ isPlaying')
             => (DispatchEvent /\ Head(events) = "play")
       /\ (isPlaying /\ ~isPlaying' /\ providerUp')
             => (DispatchEvent \/ ~Reported(events, TRUE))]_vars

\* C17 witness: togglePlayPause has paused the playing element; the flag
\* still says playing until the element's pause event is handled.
C17_Witness ==
    /\ lastCmd.op = "togglePlayPause"
    /\ isPlaying
    /\ audio.paused
    /\ events = <<"pause">>
    /\ currentPodcast # 0

\* the state a consumer of the context can tell: no track, playing, or not
SessionState ==
    IF currentPodcast = 0 THEN "Idle"
    ELSE IF isPlaying THEN "Playing" ELSE "Paused"

\* C18: when the deferred play() of playPodcast is rejected, the session is
\* Errored (and not Playing), and no further play is scheduled.
C18_PlayRejected ==
    [][(DeferredPlay /\ providerUp /\ currentPodcast # 0
          /\ (audio.paused \/ ~Playable(audio))
          /\ audio' = audio /\ events' = events)
          => /\ SessionState' = "Errored"
             /\ ~isPlaying'
             /\ playTimers' = playTimers - 1]_vars

C24_NoPlayAfterTeardown ==
    /\ [](~providerUp => (audio.paused /\ audio.src = <<>>))
    /\ [][ProviderUnmount => playTimers' = 0]_vars
    /\ [][~providerUp => (playTimers' = playTimers /\ lastCmd' = lastCmd)]_vars

\* C25: a tick that finds pollingIds empty, or no credential stored, does
\* nothing: no status query is issued and the list, pollingIds, the
\* completion markers and their timers are unchanged.
C25_EmptyTickNoOp ==
    [][(RenderTick /\ (~token \/ pollingIds = <<>>))
          => /\ calls' = calls
             /\ UNCHANGED <<podcasts, pollingIds, justCompletedIds, timers,
                            srv, token, loadState, pageError>>]_vars

\* C25 witness: both jobs completed at the same instant, which emptied
\* pollingIds; five seconds later the interval fired (the expiry timers
\* are half-way) and started nothing.
C25_Witness ==
    /\ mounted
    /\ pollingIds = <<>>
    /\ calls = <<>>
    /\ untilTick = PollInterval
    /\ Len(timers) = 2
    /\ timers[1].id # timers[2].id
    /\ timers[1].left = MarkerExpiry - PollInterval
    /\ timers[2].left = MarkerExpiry - PollInterval
    /\ justCompletedIds = JobIds

\* C26: togglePlayPause pauses the element when the session is playing and
\* calls play() when it is paused or idle; the play either starts the
\* element or is rejected, and a rejected play leaves the element and the
\* session (playing flag, track, position, duration, volume) as they were.
\* The toggle itself never writes the session state.
C26_ToggleCommand ==
    [][TogglePlayPause =>
          /\ isPlaying => (audio'.paused /\ audio'.src = audio.src)
          /\ ~isPlaying =>
                \/ (Playable(audio) /\ ~audio'.paused /\ audio'.src = audio.src)
                \/ (audio' = audio /\ events' = events)
          /\ (~isPlaying /\ ~Playable(audio)) => (audio' = audio /\ events' = events)
          /\ UNCHANGED <<isPlaying, currentPodcast, currentTime, duration,
                         volume, playTimers, providerUp>>]_vars

\* C26 witness: togglePlayPause was called on the idle session; the element
\* has no source, its play() was rejected and nothing changed.
C26_Witness ==
    /\ providerUp
    /\ lastCmd.op = "togglePlayPause"
    /\ currentPodcast = 0
    /\ ~isPlaying
    /\ audio.paused
    /\ audio.src = <<>>
    /\ events = <<>>
    /\ playTimers = 0

C28_ReconcileFrame ==
    [][\A i \in 1..Len(calls) :
          (StatusOkAt(i) /\ mounted) =>
             LET X == CallId(calls[i])
             IN  /\ Len(podcasts') = Len(podcasts)
                 /\ \A k \in 1..Len(podcasts) :
                       /\ podcasts'[k].id = podcasts[k].id
                       /\ podcasts'[k].topic = podcasts[k].topic
                       /\ podcasts'[k].is_public = podcasts[k].is_public
                       /\ podcasts[k].id # X => podcasts'[k] = podcasts[k]
                 /\ SetDelete(pollingIds', X) = SetDelete(pollingIds, X)
                 /\ Range(pollingIds') \subseteq Range(pollingIds)
                 /\ justCompletedIds' \ {X} = justCompletedIds \ {X}
                 /\ justCompletedIds \subseteq justCompletedIds'
                 /\ \A id \in JobIds \ {X} : markerAge'[id] = markerAge[id]]_vars

\* C28 witness: an invocation that captured job 1 as 'draft' is past job 1,
\* which is now listed as 'generating' with its topic kept and is still
\* polled; job 2 is completed, marked and out of pollingIds.
C28_Witness ==
    /\ mounted
    /\ Len(podcasts) = 2
    /\ podcasts[1].id = 1 /\ podcasts[1].status = "generating"
    /\ podcasts[1].topic = <<"topic", 1>>
    /\ podcasts[2].id = 2 /\ podcasts[2].status = "completed"
    /\ podcasts[2].audio_url = <<"/media", 2>>
    /\ pollingIds = <<1>>
    /\ justCompletedIds = {2}
    /\ \E i \in 1..Len(calls) : calls[i].idx = 2 /\ calls[i].podcasts[1].status = "draft"

\* C29: while the provider is mounted and a track is current, the source
\* bound to the element is the (resolved) audio url of currentPodcast,
\* whatever sequence of playPodcast calls led there; so when a 'play' event
\* of the element sets the playing flag, the track it marks as playing is
\* the one whose source is bound, and the event changes neither.
C29_SourceIsCurrent ==
    /\ []((providerUp /\ currentPodcast # 0)
            => audio.src = ResolveUrl(AudioUrl(currentPodcast)))
    /\ []((providerUp /\ currentPodcast = 0) => audio.src = <<>>)
    /\ [][(DispatchEvent /\ providerUp /\ Head(events) = "play")
            => /\ isPlaying'
               /\ currentPodcast # 0
               /\ currentPodcast' = currentPodcast
               /\ audio'.src = ResolveUrl(AudioUrl(currentPodcast))]_vars

\* C29 witness: playPodcast was called for track 1 and, before the deferred
\* play of that call ran, for track 2: two deferred plays are pending and
\* the element holds the source of track 2.
C29_Witness ==
    /\ providerUp
    /\ playTimers = 2
    /\ lastCmd = [op |-> "playPodcast", arg |-> 2]
    /\ currentPodcast = 2
    /\ audio.src = ResolveUrl(AudioUrl(2))
    /\ audio.src # ResolveUrl(AudioUrl(1))

\* C30: playPodcast called with a podcast that has no audio_url has no
\* effect: currentPodcast, the playing flag, position, duration, volume,
\* the element (its source, its paused state, its position) and the event
\* queue are unchanged, and no deferred play is scheduled.
C30_NoUrlRejected ==
    [][\A id \in PodcastIds :
          (PlayPodcast(id) /\ AudioUrl(id) = <<>>)
          => UNCHANGED <<currentPodcast, isPlaying, currentTime, duration,
                         volume, audio, events, playTimers, providerUp>>]_vars

\* C30 witness: playPodcast was called with the podcast that has no
\* audio_url while track 1 was playing; track 1 is still current and
\* playing, and no deferred play is pending.
C30_Witness ==
    /\ providerUp
    /\ lastCmd = [op |-> "playPodcast", arg |-> NumTracks + 1]
    /\ AudioUrl(NumTracks + 1) = <<>>
    /\ currentPodcast = 1
    /\ isPlaying
    /\ ~audio.paused
    /\ audio.src = ResolveUrl(AudioUrl(1))
    /\ playTimers = 0

=============================================================================
